---------------------------- MODULE Spec2Model ----------------------------
(***************************************************************************)
(* BERT-Sequence-Labeling: the data pipeline of load.py (flush_tokens,     *)
(* load_data_from_file, load_data) and the metric aggregator of utils.py   *)
(* (Meter).                                                                *)
(*                                                                         *)
(* A text is a sequence of one-character strings, a line is a text that    *)
(* ends in "\n", a file is a sequence of lines.  Label strings are texts,  *)
(* subtoken ids are integers.                                              *)
(***************************************************************************)
EXTENDS Integers, Sequences, FiniteSets, TLC

VARIABLES
    file,                \* the lines of the file being read (load.py:72,76)
    pos,                 \* index of the next line of the for loop (load.py:76)
    pc,                  \* where load_data_from_file stands
    max_len,             \* parameter max_len (load.py:50)
    list_tokens,         \* load.py:73
    list_labels,         \* load.py:74
    list_all_tokens,     \* load.py:66
    list_all_labels,     \* load.py:67
    list_all_masks,      \* load.py:68
    list_all_crf_masks,  \* load.py:69
    phase,               \* which call of load_data is running (load.py:210,223)
    label_encoder,       \* load_data's label_encoder: <<>> is None, <<C>> is
                         \* an encoder whose classes_ are the set C
    train_loader,        \* load_data's train_loader: <<>> until returned
    dev_loader,          \* load_data's dev_loader: <<>> until returned
    meter,               \* the fields of a Meter (utils.py:22-34)
    ret,                 \* what the last update_params returned, <<>> if none
    hist,                \* history: the number of updates since the last
                         \* reset and the sums of their per-batch values
    call                 \* the arguments of a single update_params call

builderVars == <<file, pos, pc, max_len, list_tokens, list_labels,
                 list_all_tokens, list_all_labels, list_all_masks,
                 list_all_crf_masks>>

loadVars == <<phase, label_encoder, train_loader, dev_loader>>

meterVars == <<meter, ret, hist, call>>

vars == <<builderVars, loadVars, meterVars>>

-----------------------------------------------------------------------------
(* Bounds of the model *)

\* longest file read by the Sequence Builder
MaxLines == 4

\* longest train and dev file read by the Corpus Loader
MaxLoadLines == 2

\* most positions (batch * sequence) of the batch of a single update_params
\* call
MaxPositions == 2

\* most positions (batch * sequence) of the batches of a sequence of
\* update_params calls
MaxMeterPositions == 1

\* most update_params calls between two resets of the Meter
MaxUpdates == 3

\* the bits of the significand of a floating-point number (53 in the
\* float64 of Python and numpy), scaled down
FloatBits == 5

-----------------------------------------------------------------------------
(* Configuration handed to load_data_from_file *)

NL == "\n"

separator == "\t"

tokens_column == 0

predict_column == 1

pad_label == <<"P">>

null_label == <<"X">>

\* the values of max_len the builder is run with
MaxLenChoices == {3, 4}

(* The tokenizer (an external collaborator): special ids, and encode, which *)
(* yields one subtoken per character it knows and none for whitespace, so   *)
(* that a surface token has zero, one or several subtokens.                 *)
cls_token_id == 101

sep_token_id == 102

pad_token_id == 0

Piece(c) ==
    CASE c = "a" -> <<11>>
      [] c = "b" -> <<12>>
      [] c = "O" -> <<13>>
      [] c = "#" -> <<14>>
      [] OTHER -> <<>>

RECURSIVE encode(_)
encode(token) ==
    IF token = <<>> THEN <<>>
    ELSE Piece(Head(token)) \o encode(Tail(token))

(* The lines a file is made of: a comment, a boundary, words of one, two    *)
(* and zero subtokens, and a line with a single column.                     *)
LineSet ==
    { <<"#", "\t", "O", NL>>,
      <<NL>>,
      <<"a", "\t", "O", NL>>,
      <<"a", "b", "\t", "B", NL>>,
      <<"\t", "O", NL>>,
      <<"a", NL>> }

RECURSIVE SeqsUpTo(_, _)
SeqsUpTo(S, n) ==
    IF n = 0 THEN {<<>>}
    ELSE LET shorter == SeqsUpTo(S, n - 1)
         IN  shorter \cup {Append(s, x) : s \in {t \in shorter : Len(t) = n - 1}, x \in S}

Files == SeqsUpTo(LineSet, MaxLines)

LoadFiles == SeqsUpTo(LineSet, MaxLoadLines)

-----------------------------------------------------------------------------
(* String operations of load_data_from_file *)

\* line.startswith("#")
StartsWithHash(line) == Len(line) > 0 /\ line[1] = "#"

\* line != "\n" is false
IsBoundary(line) == line = <<NL>>

\* line.split(separator): the columns, empty ones included
RECURSIVE SplitFrom(_, _, _)
SplitFrom(line, i, cur) ==
    IF i > Len(line) THEN <<cur>>
    ELSE IF line[i] = separator
         THEN <<cur>> \o SplitFrom(line, i + 1, <<>>)
         ELSE SplitFrom(line, i + 1, Append(cur, line[i]))

Split(line) == SplitFrom(line, 1, <<>>)

\* tokens[column] raises IndexError when the line has too few columns
HasColumns(line) ==
    /\ tokens_column + 1 <= Len(Split(line))
    /\ predict_column + 1 <= Len(Split(line))

\* token = tokens[tokens_column]
TokenOf(line) == Split(line)[tokens_column + 1]

\* label = tokens[predict_column].replace("\n", "")
LabelOf(line) == SelectSeq(Split(line)[predict_column + 1], LAMBDA c : c # NL)

\* [label] + [null_label] * (len(subtokens) - 1): a list times a number
\* below 1 is the empty list
WordLabels(label, k) ==
    <<label>> \o [i \in 1..(IF k - 1 > 0 THEN k - 1 ELSE 0) |-> null_label]

-----------------------------------------------------------------------------
(* flush_tokens *)

\* a variant that also masks the positions carrying pad_label
CrfMaskPadToo(labels) ==
    [i \in 1..Len(labels) |-> labels[i] # null_label /\ labels[i] # pad_label]

\* [1 if label != null_label else 0 for label in list_all_labels[-1]]
CrfMask(labels) == [i \in 1..Len(labels) |-> labels[i] # null_label]

flush_tokens ==
    /\ list_all_tokens' =
           Append(list_all_tokens, <<cls_token_id>> \o list_tokens \o <<sep_token_id>>)
    /\ list_all_labels' =
           Append(list_all_labels, <<pad_label>> \o list_labels \o <<pad_label>>)
    /\ list_all_masks' =
           Append(list_all_masks, [i \in 1..(Len(list_tokens) + 2) |-> 1])
    /\ list_all_crf_masks' =
           Append(list_all_crf_masks,
                  CrfMask(<<pad_label>> \o list_labels \o <<pad_label>>))
    /\ list_tokens' = <<>>
    /\ list_labels' = <<>>

-----------------------------------------------------------------------------
(* load_data_from_file: the loop over the lines and the final flush *)

\* the loader uses no Meter
NoMeter ==
    /\ meter = <<>>
    /\ ret = <<>>
    /\ hist = <<>>
    /\ call = <<>>

\* the state of a call once the file is open (load.py:66-74)
CallStart ==
    /\ pos = 1
    /\ pc = "reading"
    /\ list_tokens = <<>>
    /\ list_labels = <<>>
    /\ list_all_tokens = <<>>
    /\ list_all_labels = <<>>
    /\ list_all_masks = <<>>
    /\ list_all_crf_masks = <<>>

\* a call with label_encoder=None, as load_data makes for the train split
Init ==
    /\ file \in Files
    /\ max_len \in MaxLenChoices
    /\ CallStart
    /\ phase = "train"
    /\ label_encoder = <<>>
    /\ train_loader = <<>>
    /\ dev_loader = <<>>
    /\ NoMeter

AtLine == pc = "reading" /\ pos <= Len(file)

\* a variant in which a comment line closes the sentence
SkipCommentAsBoundary ==
    /\ AtLine
    /\ StartsWithHash(file[pos])
    /\ IF list_tokens # <<>>
       THEN flush_tokens
       ELSE UNCHANGED <<list_tokens, list_labels, list_all_tokens,
                        list_all_labels, list_all_masks, list_all_crf_masks>>
    /\ pos' = pos + 1
    /\ UNCHANGED <<file, pc, max_len, loadVars, meterVars>>

\* if line.startswith("#"): continue
SkipComment ==
    /\ AtLine
    /\ StartsWithHash(file[pos])
    /\ pos' = pos + 1
    /\ UNCHANGED <<file, pc, max_len, list_tokens, list_labels, list_all_tokens,
                   list_all_labels, list_all_masks, list_all_crf_masks, loadVars, meterVars>>

\* a variant in which a token line with too few columns is passed over
ReadTokenSkipMalformed ==
    /\ AtLine
    /\ ~StartsWithHash(file[pos])
    /\ ~IsBoundary(file[pos])
    /\ IF ~HasColumns(file[pos])
       THEN /\ pos' = pos + 1
            /\ UNCHANGED <<pc, list_tokens, list_labels>>
       ELSE LET subtokens == encode(TokenOf(file[pos]))
            IN  /\ list_tokens' = list_tokens \o subtokens
                /\ list_labels' =
                       list_labels \o WordLabels(LabelOf(file[pos]), Len(subtokens))
                /\ pos' = pos + 1
                /\ pc' = pc
    /\ UNCHANGED <<file, max_len, list_all_tokens, list_all_labels,
                   list_all_masks, list_all_crf_masks, loadVars, meterVars>>

\* if line != "\n": ... continue
ReadToken ==
    /\ AtLine
    /\ ~StartsWithHash(file[pos])
    /\ ~IsBoundary(file[pos])
    /\ IF ~HasColumns(file[pos])
       THEN /\ pc' = "IndexError"
            /\ UNCHANGED <<pos, list_tokens, list_labels>>
       ELSE LET subtokens == encode(TokenOf(file[pos]))
            IN  /\ list_tokens' = list_tokens \o subtokens
                /\ list_labels' =
                       list_labels \o WordLabels(LabelOf(file[pos]), Len(subtokens))
                /\ pos' = pos + 1
                /\ pc' = pc
    /\ UNCHANGED <<file, max_len, list_all_tokens, list_all_labels,
                   list_all_masks, list_all_crf_masks, loadVars, meterVars>>

\* the boundary line: the assertion, the empty sentence, the length cap
Boundary ==
    /\ AtLine
    /\ ~StartsWithHash(file[pos])
    /\ IsBoundary(file[pos])
    /\ IF Len(list_tokens) # Len(list_labels)
       THEN /\ pc' = "AssertionError"
            /\ UNCHANGED <<pos, list_tokens, list_labels, list_all_tokens,
                           list_all_labels, list_all_masks, list_all_crf_masks>>
       ELSE IF Len(list_tokens) = 0
       THEN /\ pos' = pos + 1
            /\ UNCHANGED <<pc, list_tokens, list_labels, list_all_tokens,
                           list_all_labels, list_all_masks, list_all_crf_masks>>
       ELSE IF Len(list_tokens) + 2 <= max_len
       THEN /\ flush_tokens
            /\ pos' = pos + 1
            /\ pc' = pc
       ELSE /\ pos' = pos + 1
            /\ UNCHANGED <<pc, list_tokens, list_labels, list_all_tokens,
                           list_all_labels, list_all_masks, list_all_crf_masks>>
    /\ UNCHANGED <<file, max_len, loadVars, meterVars>>

\* a variant that applies the length cap to the trailing sentence too
EndOfStreamCapped ==
    /\ pc = "reading"
    /\ pos > Len(file)
    /\ IF list_tokens # <<>> /\ Len(list_tokens) + 2 <= max_len
       THEN flush_tokens
       ELSE UNCHANGED <<list_tokens, list_labels, list_all_tokens,
                        list_all_labels, list_all_masks, list_all_crf_masks>>
    /\ pc' = "loaded"
    /\ UNCHANGED <<file, pos, max_len, loadVars, meterVars>>

\* after the loop: if list_tokens: flush_tokens(...); then the assertion of
\* line 130, which compares the lengths of lists that grow together
EndOfStream ==
    /\ pc = "reading"
    /\ pos > Len(file)
    /\ IF list_tokens # <<>>
       THEN flush_tokens
       ELSE UNCHANGED <<list_tokens, list_labels, list_all_tokens,
                        list_all_labels, list_all_masks, list_all_crf_masks>>
    /\ pc' = IF Len(list_all_tokens') = Len(list_all_labels')
                /\ Len(list_all_labels') = Len(list_all_masks')
             THEN "loaded" ELSE "AssertionError"
    /\ UNCHANGED <<file, pos, max_len, loadVars, meterVars>>

-----------------------------------------------------------------------------
(* load_data_from_file: the label encoder and the padded tensors *)

\* code points, for the order in which LabelEncoder sorts its classes_
CharCode(c) ==
    CASE c = "B" -> 66
      [] c = "O" -> 79
      [] c = "P" -> 80
      [] c = "X" -> 88
      [] c = "a" -> 97
      [] c = "b" -> 98
      [] OTHER -> 0

\* s < t for label strings
RECURSIVE LexLess(_, _)
LexLess(s, t) ==
    IF t = <<>> THEN FALSE
    ELSE IF s = <<>> THEN TRUE
    ELSE IF CharCode(Head(s)) # CharCode(Head(t))
         THEN CharCode(Head(s)) < CharCode(Head(t))
         ELSE LexLess(Tail(s), Tail(t))

\* sum(list_all_labels, []) as the set of label strings in it
LabelsIn(all_labels) ==
    UNION {{all_labels[i][j] : j \in 1..Len(all_labels[i])} : i \in 1..Len(all_labels)}

\* a variant that fits a new encoder on every call
FitAlways(encoder, all_labels) == <<LabelsIn(all_labels)>>

\* if label_encoder is None: label_encoder = LabelEncoder(); fit(...)
FitOrReuse(encoder, all_labels) ==
    IF encoder = <<>> THEN <<LabelsIn(all_labels)>> ELSE encoder

\* label_encoder.transform raises ValueError on a label it has not seen
Unseen(encoder, labels) ==
    \E j \in 1..Len(labels) : labels[j] \notin encoder[1]

\* label_encoder.transform: the index of each label in the sorted classes_
Transform(encoder, labels) ==
    [j \in 1..Len(labels) |->
        Cardinality({c \in encoder[1] : LexLess(c, labels[j])})]

MaxRowLen(rows) ==
    IF Len(rows) = 0 THEN 0
    ELSE CHOOSE m \in {Len(rows[i]) : i \in 1..Len(rows)} :
             \A i \in 1..Len(rows) : Len(rows[i]) <= m

\* torch.nn.utils.rnn.pad_sequence(rows, batch_first=True, padding_value)
PadSequence(rows, padding_value) ==
    [i \in 1..Len(rows) |->
        [j \in 1..MaxRowLen(rows) |->
            IF j <= Len(rows[i]) THEN rows[i][j] ELSE padding_value]]

\* lines 132-175: fit or reuse the encoder, encode the labels, pad the four
\* fields, return (loader, label_encoder).  transform fails on an unseen
\* label, pad_sequence on an empty list of Samples.
Assemble ==
    /\ pc = "loaded"
    /\ LET encoder == FitOrReuse(label_encoder, list_all_labels)
       IN  IF \E i \in 1..Len(list_all_labels) : Unseen(encoder, list_all_labels[i])
           THEN /\ pc' = "ValueError"
                /\ UNCHANGED loadVars
           ELSE IF Len(list_all_tokens) = 0
           THEN /\ pc' = "RuntimeError"
                /\ UNCHANGED loadVars
           ELSE LET loader ==
                        [X |-> PadSequence(list_all_tokens, pad_token_id),
                         y |-> PadSequence(
                                   [i \in 1..Len(list_all_labels) |->
                                        Transform(encoder, list_all_labels[i])],
                                   Transform(encoder, <<pad_label>>)[1]),
                         masks |-> PadSequence(list_all_masks, 0),
                         crf_mask |-> PadSequence(list_all_crf_masks, FALSE)]
                IN  /\ pc' = "returned"
                    /\ IF phase = "train"
                       THEN /\ train_loader' = <<loader>>
                            /\ label_encoder' = encoder
                            /\ UNCHANGED dev_loader
                       ELSE /\ dev_loader' = <<loader>>
                            /\ UNCHANGED <<train_loader, label_encoder>>
                    /\ UNCHANGED phase
    /\ UNCHANGED <<file, pos, max_len, list_tokens, list_labels, list_all_tokens,
                   list_all_labels, list_all_masks, list_all_crf_masks, meterVars>>

Next ==
    \/ SkipComment
    \/ ReadToken
    \/ Boundary
    \/ EndOfStream
    \/ Assemble

Spec == Init /\ [][Next]_vars

-----------------------------------------------------------------------------
(* load_data: the train split, then the dev split with the train encoder *)

InitLoad ==
    /\ file \in LoadFiles
    /\ max_len \in MaxLenChoices
    /\ CallStart
    /\ phase = "train"
    /\ label_encoder = <<>>
    /\ train_loader = <<>>
    /\ dev_loader = <<>>
    /\ NoMeter

\* the second call, load.py:223-235: the dev file is opened and read with
\* the label_encoder the first call returned
StartDev ==
    /\ phase = "train"
    /\ pc = "returned"
    /\ phase' = "dev"
    /\ file' \in LoadFiles
    /\ pos' = 1
    /\ pc' = "reading"
    /\ list_tokens' = <<>>
    /\ list_labels' = <<>>
    /\ list_all_tokens' = <<>>
    /\ list_all_labels' = <<>>
    /\ list_all_masks' = <<>>
    /\ list_all_crf_masks' = <<>>
    /\ UNCHANGED <<max_len, label_encoder, train_loader, dev_loader, meterVars>>

NextLoad ==
    \/ SkipComment
    \/ ReadToken
    \/ Boundary
    \/ EndOfStream
    \/ Assemble
    \/ StartDev

SpecLoad == InitLoad /\ [][NextLoad]_vars

-----------------------------------------------------------------------------
(* utils.py, class Meter.  Numbers are exact rationals <<n, d>>, d > 0, in  *)
(* lowest terms.                                                            *)

RECURSIVE GCD(_, _)
GCD(a, b) == IF b = 0 THEN a ELSE GCD(b, a % b)

Rat(n, d) == LET g == GCD(n, d) IN <<n \div g, d \div g>>

RInt(n) == <<n, 1>>

RAdd(a, b) == Rat(a[1] * b[2] + b[1] * a[2], a[2] * b[2])

RMul(a, b) == Rat(a[1] * b[1], a[2] * b[2])

RDiv(a, b) == Rat(a[1] * b[2], a[2] * b[1])

\* a variant with zero_division=1
Ratio1(n, d) == IF d = 0 THEN RInt(1) ELSE Rat(n, d)

\* a / b with zero_division=0
Ratio0(n, d) == IF d = 0 THEN RInt(0) ELSE Rat(n, d)

\* the class ids of gold and the width of the logits' last dimension
NumClasses == 3

\* the target_classes a Meter is built with
TargetChoices == {<<1>>, <<1, 2>>}

\* the loss values handed to update_params
LossChoices == {RInt(0), <<1, 2>>, RInt(2)}

\* the logits of one position
LogitRows == {<<1, 0, 0>>, <<0, 1, 0>>, <<0, 0, 1>>, <<1, 1, 0>>}

\* the shapes (batch, sequence) of gold with at most n positions
Shapes(n) == {sh \in (1..n) \X (1..n) : sh[1] * sh[2] <= n}

\* the pairs (logits, gold) of at most n positions: logits of shape
\* (batch, sequence, NumClasses), gold of shape (batch, sequence)
BatchesUpTo(n) ==
    UNION {[logits : [1..sh[1] -> [1..sh[2] -> LogitRows]],
            gold : [1..sh[1] -> [1..sh[2] -> 0..(NumClasses - 1)]]] : sh \in Shapes(n)}

Batches == BatchesUpTo(MaxPositions)

MeterBatches == BatchesUpTo(MaxMeterPositions)

\* view(-1, ...) and reshape(-1): the rows one after the other
RECURSIVE Flatten(_)
Flatten(rows) == IF rows = <<>> THEN <<>> ELSE Head(rows) \o Flatten(Tail(rows))

\* torch.argmax: the index (from 0) of the first largest value
ArgMax(x) ==
    (CHOOSE i \in 1..Len(x) :
        /\ \A j \in 1..Len(x) : x[j] <= x[i]
        /\ \A j \in 1..(i - 1) : x[j] < x[i]) - 1

InList(x, list) == \E i \in 1..Len(list) : list[i] = x

\* a variant that keeps every position
KeptPositionsAll(target, y_true) == 1..Len(y_true)

\* lines 53-61: the positions whose gold id is in target_classes
KeptPositions(target, y_true) == {i \in 1..Len(y_true) : InList(y_true[i], target)}

\* per class c, over the kept positions: true positives, predicted, gold
TP(K, y_true, y_pred, c) == Cardinality({i \in K : y_true[i] = c /\ y_pred[i] = c})

PredSum(K, y_pred, c) == Cardinality({i \in K : y_pred[i] = c})

TrueSum(K, y_true, c) == Cardinality({i \in K : y_true[i] = c})

\* the sum of a list of integers, and of a list of rationals
RECURSIVE Sum(_)
Sum(list) == IF list = <<>> THEN 0 ELSE Head(list) + Sum(Tail(list))

RECURSIVE RSum(_)
RSum(list) == IF list = <<>> THEN RInt(0) ELSE RAdd(Head(list), RSum(Tail(list)))

\* f1 from the counts: 2 tp / (pred + true), zero_division=0
F1Of(tp, pred, true) == Ratio0(2 * tp, pred + true)

\* lines 47-106: argmax, filter, then precision_score, recall_score and
\* f1_score with labels=target_classes, average micro and macro
BatchMetrics(target, logits, gold) ==
    LET y_pred_all == [i \in 1..Len(Flatten(logits)) |-> ArgMax(Flatten(logits)[i])]
        y_true == Flatten(gold)
        K == KeptPositions(target, y_true)
        tp(c) == TP(K, y_true, y_pred_all, c)
        pr(c) == PredSum(K, y_pred_all, c)
        tr(c) == TrueSum(K, y_true, c)
        T == 1..Len(target)
        tp_sum == Sum([t \in T |-> tp(target[t])])
        pred_sum == Sum([t \in T |-> pr(target[t])])
        true_sum == Sum([t \in T |-> tr(target[t])])
        P == [t \in T |-> Ratio0(tp(target[t]), pr(target[t]))]
        R == [t \in T |-> Ratio0(tp(target[t]), tr(target[t]))]
        F == [t \in T |-> F1Of(tp(target[t]), pr(target[t]), tr(target[t]))]
        n == RInt(Len(target))
    IN  [micro_prec |-> Ratio0(tp_sum, pred_sum),
         micro_recall |-> Ratio0(tp_sum, true_sum),
         micro_f1 |-> F1Of(tp_sum, pred_sum, true_sum),
         macro_prec |-> RDiv(RSum(P), n),
         macro_recall |-> RDiv(RSum(R), n),
         macro_f1 |-> RDiv(RSum(F), n)]

\* the per-batch metrics the batches of the model give, per target_classes
ScoresOf ==
    [target \in TargetChoices |->
        {BatchMetrics(target, b.logits, b.gold) : b \in MeterBatches}]

Scalars == {"loss", "micro_prec", "micro_recall", "micro_f1",
            "macro_prec", "macro_recall", "macro_f1"}

\* Meter.__init__: target_classes as given, all seven scalars and it are 0
Zeroed(target) ==
    [target_classes |-> target,
     loss |-> RInt(0),
     micro_prec |-> RInt(0), micro_recall |-> RInt(0), micro_f1 |-> RInt(0),
     macro_prec |-> RInt(0), macro_recall |-> RInt(0), macro_f1 |-> RInt(0),
     it |-> 0]

NoHistory == [k |-> 0, sum |-> [f \in Scalars |-> RInt(0)]]

\* a variant that averages the old mean and the new value
FoldHalf(old, it, new) == RDiv(RAdd(old, new), RInt(2))

\* (self.x * self.it + x) / (self.it + 1)
Fold(old, it, new) == RDiv(RAdd(RMul(old, RInt(it)), new), RInt(it + 1))

\* lines 108-128: fold the loss and the six batch metrics into the running
\* means, count the update, return the running means
Updated(m, loss, scores) ==
    [target_classes |-> m.target_classes,
     loss |-> Fold(m.loss, m.it, loss),
     micro_prec |-> Fold(m.micro_prec, m.it, scores.micro_prec),
     micro_recall |-> Fold(m.micro_recall, m.it, scores.micro_recall),
     micro_f1 |-> Fold(m.micro_f1, m.it, scores.micro_f1),
     macro_prec |-> Fold(m.macro_prec, m.it, scores.macro_prec),
     macro_recall |-> Fold(m.macro_recall, m.it, scores.macro_recall),
     macro_f1 |-> Fold(m.macro_f1, m.it, scores.macro_f1),
     it |-> m.it + 1]

Returned(m) ==
    <<m.loss, m.micro_prec, m.micro_recall, m.micro_f1,
      m.macro_prec, m.macro_recall, m.macro_f1>>

\* the values of one batch, by scalar
BatchValues(loss, scores) ==
    [f \in Scalars |-> IF f = "loss" THEN loss ELSE scores[f]]

\* update_params with the batch metrics `scores` of its logits and gold
UpdateWith(loss, scores) ==
    /\ meter' = Updated(meter, loss, scores)
    /\ ret' = Returned(meter')
    /\ hist' = [k |-> hist.k + 1,
                sum |-> [f \in Scalars |->
                            RAdd(hist.sum[f], BatchValues(loss, scores)[f])]]

InitMeter ==
    /\ meter \in {Zeroed(target) : target \in TargetChoices}
    /\ ret = <<>>
    /\ hist = NoHistory
    /\ call = <<>>
    /\ file = <<>>
    /\ max_len = 0
    /\ pos = 1
    /\ pc = "meter"
    /\ list_tokens = <<>>
    /\ list_labels = <<>>
    /\ list_all_tokens = <<>>
    /\ list_all_labels = <<>>
    /\ list_all_masks = <<>>
    /\ list_all_crf_masks = <<>>
    /\ phase = "meter"
    /\ label_encoder = <<>>
    /\ train_loader = <<>>
    /\ dev_loader = <<>>

\* update_params(loss, logits, gold), any batch of the model: the batch
\* metrics are drawn from those the batches give for self.target_classes
UpdateParams ==
    /\ pc = "meter"
    /\ call = <<>>
    /\ meter.it < MaxUpdates
    /\ \E loss \in LossChoices :
        \E scores \in ScoresOf[meter.target_classes] : UpdateWith(loss, scores)
    /\ UNCHANGED <<call, builderVars, loadVars>>

\* a variant of reset that leaves the counter as it is
ResetFieldsKeepIt(m) ==
    [m EXCEPT !.loss = RInt(0),
              !.micro_prec = RInt(0), !.micro_recall = RInt(0), !.micro_f1 = RInt(0),
              !.macro_prec = RInt(0), !.macro_recall = RInt(0), !.macro_f1 = RInt(0)]

\* lines 132-142: reset assigns 0 to the seven scalars and to it, and to no
\* other field
ResetFields(m) ==
    [m EXCEPT !.loss = RInt(0),
              !.micro_prec = RInt(0), !.micro_recall = RInt(0), !.micro_f1 = RInt(0),
              !.macro_prec = RInt(0), !.macro_recall = RInt(0), !.macro_f1 = RInt(0),
              !.it = 0]

\* reset()
Reset ==
    /\ pc = "meter"
    /\ call = <<>>
    /\ meter' = ResetFields(meter)
    /\ hist' = NoHistory
    /\ UNCHANGED <<ret, call, builderVars, loadVars>>

NextMeter ==
    \/ UpdateParams
    \/ Reset

SpecMeter == InitMeter /\ [][NextMeter]_vars

(* One update_params call on a fresh Meter, its arguments held in `call` *)

InitFilter ==
    /\ meter \in {Zeroed(target) : target \in TargetChoices}
    /\ ret = <<>>
    /\ hist = NoHistory
    /\ call \in {<<[loss |-> l, logits |-> b.logits, gold |-> b.gold]>> :
                    l \in {<<1, 2>>}, b \in Batches}
    /\ file = <<>>
    /\ max_len = 0
    /\ pos = 1
    /\ pc = "meter"
    /\ list_tokens = <<>>
    /\ list_labels = <<>>
    /\ list_all_tokens = <<>>
    /\ list_all_labels = <<>>
    /\ list_all_masks = <<>>
    /\ list_all_crf_masks = <<>>
    /\ phase = "meter"
    /\ label_encoder = <<>>
    /\ train_loader = <<>>
    /\ dev_loader = <<>>

\* update_params(call.loss, call.logits, call.gold)
UpdateCall ==
    /\ pc = "meter"
    /\ call # <<>>
    /\ meter.it = 0
    /\ UpdateWith(call[1].loss,
                  BatchMetrics(meter.target_classes, call[1].logits, call[1].gold))
    /\ UNCHANGED <<call, builderVars, loadVars>>

NextFilter ==
    \/ UpdateCall

SpecFilter == InitFilter /\ [][NextFilter]_vars

-----------------------------------------------------------------------------
(* The sentences of the file, read off the lines alone *)

\* a line that contributes a word: neither a comment nor a boundary
IsTokenLine(line) == ~StartsWithHash(line) /\ ~IsBoundary(line)

\* the subtokens the words of lines lo..hi yield, in order
RECURSIVE SentenceTokens(_, _)
SentenceTokens(lo, hi) ==
    IF lo > hi THEN <<>>
    ELSE (IF IsTokenLine(file[lo]) /\ HasColumns(file[lo])
          THEN encode(TokenOf(file[lo])) ELSE <<>>)
         \o SentenceTokens(lo + 1, hi)

\* the last boundary line before line p, 0 when there is none
PrevBoundary(p) ==
    LET B == {q \in 1..(p - 1) : q <= Len(file) /\ IsBoundary(file[q])}
    IN  IF B = {} THEN 0 ELSE CHOOSE q \in B : \A r \in B : r <= q

\* the subtokens of the sentence that line p closes (p a boundary line, or
\* Len(file) + 1 for the trailing sentence)
SentenceBefore(p) == SentenceTokens(PrevBoundary(p) + 1, p - 1)

\* a Sample without its start and end markers
Inner(sample) == SubSeq(sample, 2, Len(sample) - 1)

\* the sentences that may be emitted: those closed by a boundary within the
\* cap, and the trailing sentence
KeptSentences ==
    {SentenceBefore(p) : p \in {q \in 1..Len(file) :
          /\ IsBoundary(file[q])
          /\ Len(SentenceBefore(q)) >= 1
          /\ Len(SentenceBefore(q)) + 2 <= max_len}}
    \cup {SentenceBefore(Len(file) + 1)}

bufferVars == <<list_tokens, list_labels, list_all_tokens, list_all_labels,
                list_all_masks, list_all_crf_masks>>

-----------------------------------------------------------------------------
(* C1: a sentence closed by a boundary line whose n subtokens have          *)
(* n + 2 > max_len is dropped: once the file is loaded, every emitted       *)
(* Sample holds the subtokens of one sentence that is within the cap (or of *)
(* the trailing sentence), so no Sample holds subtokens of a dropped        *)
(* sentence, neither alone nor merged with a later sentence.                *)
C1_OverlongSentenceDropped ==
    pc = "loaded" =>
        \A i \in 1..Len(list_all_tokens) : Inner(list_all_tokens[i]) \in KeptSentences

(* C2: at the boundary line closing a sentence of n subtokens, n >= 1 and   *)
(* n + 2 <= max_len, whatever came before, exactly one Sample is emitted,   *)
(* tokens = [start] + the sentence's own subtokens + [end], its labels      *)
(* begin and end with pad_label, and the buffers are empty afterwards.      *)
C2_OneSamplePerSentence ==
    [][ ( /\ AtLine
          /\ IsBoundary(file[pos])
          /\ Len(SentenceBefore(pos)) >= 1
          /\ Len(SentenceBefore(pos)) + 2 <= max_len )
        => ( /\ list_all_tokens' =
                    Append(list_all_tokens,
                           <<cls_token_id>> \o SentenceBefore(pos) \o <<sep_token_id>>)
             /\ Len(list_all_labels') = Len(list_all_labels) + 1
             /\ LET l == list_all_labels'[Len(list_all_labels')]
                IN  l[1] = pad_label /\ l[Len(l)] = pad_label
             /\ list_tokens' = <<>>
             /\ list_labels' = <<>> ) ]_vars

(* C3 as stated: in every Sample, crf_mask[i] is False exactly when         *)
(* labels[i] is pad_label or null_label.                                    *)
C3_MaskOffAtPadAndNull ==
    \A i \in 1..Len(list_all_crf_masks) :
        \A j \in 1..Len(list_all_crf_masks[i]) :
            (list_all_crf_masks[i][j] = FALSE)
                <=> (list_all_labels[i][j] \in {pad_label, null_label})

(* C3 amended: in every Sample, crf_mask has one entry per label and        *)
(* crf_mask[i] is False exactly when labels[i] is null_label; the start     *)
(* and end markers, which carry pad_label, are True.                        *)
C3_MaskOffAtNullOnly ==
    /\ Len(list_all_crf_masks) = Len(list_all_labels)
    /\ \A i \in 1..Len(list_all_crf_masks) :
        /\ Len(list_all_crf_masks[i]) = Len(list_all_labels[i])
        /\ \A j \in 1..Len(list_all_crf_masks[i]) :
            (list_all_crf_masks[i][j] = FALSE) <=> (list_all_labels[i][j] = null_label)

\* a Sample with a null-label position masked off, a gold label and both
\* markers masked on
C3_Witness ==
    \E i \in 1..Len(list_all_crf_masks) :
        LET m == list_all_crf_masks[i]
            l == list_all_labels[i]
        IN  /\ l[1] = pad_label /\ m[1] = TRUE
            /\ l[Len(l)] = pad_label /\ m[Len(m)] = TRUE
            /\ \E j \in 1..Len(l) : l[j] = null_label /\ m[j] = FALSE
            /\ \E j \in 1..Len(l) : l[j] \notin {null_label, pad_label} /\ m[j] = TRUE

(* C4: len(tokens) == len(labels) for the in-progress sentence after every  *)
(* line, also for a word of zero subtokens, so the assertion at a boundary  *)
(* line never fails.                                                        *)
C4_BuffersSameLength ==
    /\ Len(list_tokens) = Len(list_labels)
    /\ pc # "AssertionError"

(* C5: a token line whose word yields k >= 0 subtokens with gold label L    *)
(* appends exactly k labels, L then k - 1 times null_label, and leaves the  *)
(* labels before them as they were.                                         *)
C5_KLabelsPerWord ==
    [][ ( /\ AtLine
          /\ IsTokenLine(file[pos])
          /\ HasColumns(file[pos]) )
        => LET k == Len(encode(TokenOf(file[pos])))
               L == LabelOf(file[pos])
           IN  /\ list_tokens' = list_tokens \o encode(TokenOf(file[pos]))
               /\ list_labels' =
                      list_labels \o [i \in 1..k |-> IF i = 1 THEN L ELSE null_label]
               /\ UNCHANGED <<list_all_tokens, list_all_labels>> ]_vars

C7_CommentLeavesState ==
    [][ (AtLine /\ StartsWithHash(file[pos]))
        => /\ UNCHANGED bufferVars
           /\ pos' = pos + 1
           /\ pc' = pc ]_vars

\* a Sample whose words stand on both sides of a comment line
C7_Witness ==
    /\ pc = "loaded"
    /\ \E p \in 2..(Len(file) - 1) :
        /\ StartsWithHash(file[p])
        /\ IsTokenLine(file[p - 1]) /\ HasColumns(file[p - 1])
        /\ IsTokenLine(file[p + 1]) /\ HasColumns(file[p + 1])
        /\ Len(encode(TokenOf(file[p - 1]))) >= 1
        /\ Len(encode(TokenOf(file[p + 1]))) >= 1
        /\ \E i \in 1..Len(list_all_tokens) :
              Inner(list_all_tokens[i]) =
                  encode(TokenOf(file[p - 1])) \o encode(TokenOf(file[p + 1]))

-----------------------------------------------------------------------------
\* the ways a call of load_data_from_file ends
Ended == {"IndexError", "AssertionError", "ValueError", "RuntimeError", "returned"}

\* some label of the Samples is not among the classes of the encoder
SomeUnseen(encoder, all_labels) ==
    \E i \in 1..Len(all_labels) :
        \E j \in 1..Len(all_labels[i]) : all_labels[i][j] \notin encoder[1]

\* the train call fits the encoder on the labels of the train Samples
TrainFitsEncoder ==
    (phase = "train" /\ pc = "loaded" /\ pc' = "returned")
        => label_encoder' = <<LabelsIn(list_all_labels)>>

\* no step of the dev call changes the encoder
DevKeepsEncoder == (phase = "dev") => (label_encoder' = label_encoder)

(* C8 as stated: the train split fits the encoder, the dev load never       *)
(* changes it, and the dev load ends with the unknown-label error and no    *)
(* loader if some label of a dev Sample is not in the train vocabulary, and *)
(* succeeds otherwise.                                                      *)
C8_DevLabelsDecideLoad ==
    [][ /\ TrainFitsEncoder
        /\ DevKeepsEncoder
        /\ (phase = "dev" /\ pc \notin Ended /\ pc' \in Ended)
              => IF SomeUnseen(label_encoder, list_all_labels')
                 THEN pc' = "ValueError" /\ dev_loader' = <<>>
                 ELSE pc' = "returned" /\ dev_loader' # <<>> ]_vars

(* C8 amended: the train split fits the encoder, the dev load never changes *)
(* it, and once the dev file is read to its end the load ends with the      *)
(* unknown-label error and no loader if some label of a dev Sample is not   *)
(* in the train vocabulary; otherwise it succeeds if the dev split has at   *)
(* least one Sample, and fails if it has none.                              *)
C8_DevLabelsDecideAssembly ==
    [][ /\ TrainFitsEncoder
        /\ DevKeepsEncoder
        /\ (phase = "dev" /\ pc = "loaded")
              => IF SomeUnseen(label_encoder, list_all_labels)
                 THEN pc' = "ValueError" /\ dev_loader' = <<>>
                 ELSE IF Len(list_all_labels) >= 1
                 THEN pc' = "returned" /\ dev_loader' # <<>>
                 ELSE pc' \in Ended \ {"returned"} /\ dev_loader' = <<>> ]_vars

\* the train split is loaded, and the dev load has stopped on a label the
\* train vocabulary does not hold
C8_Witness ==
    /\ phase = "dev"
    /\ pc = "ValueError"
    /\ train_loader # <<>>
    /\ dev_loader = <<>>
    /\ label_encoder # <<>>
    /\ SomeUnseen(label_encoder, list_all_labels)

-----------------------------------------------------------------------------
(* C9: with k >= 1 updates since the last reset (or construction), it == k, *)
(* each of the seven running scalars times it equals the sum of the k       *)
(* per-batch values, and update_params returned the running scalars.        *)
C9_RunningMeanIsMean ==
    /\ meter.it = hist.k
    /\ hist.k >= 1 =>
        /\ \A f \in Scalars : RMul(meter[f], RInt(meter.it)) = hist.sum[f]
        /\ ret = Returned(meter)

\* three updates after a reset whose losses 0, 1/2 and 2 give the mean 5/6,
\* with batch metrics that differ from batch to batch
C9_Witness ==
    /\ meter.it = 3
    /\ hist.k = 3
    /\ meter.loss = <<5, 6>>
    /\ meter.micro_prec \notin {RInt(0), RInt(1)}
    /\ meter.macro_f1 \notin {RInt(0), RInt(1)}
    /\ ret = Returned(meter)

\* the six batch metrics, in the order update_params returns them
SixOf(scores) ==
    <<scores.micro_prec, scores.micro_recall, scores.micro_f1,
      scores.macro_prec, scores.macro_recall, scores.macro_f1>>

\* the flattened gold and predictions of the call
CallTrue == Flatten(call[1].gold)

CallPred == [i \in 1..Len(CallTrue) |-> ArgMax(Flatten(call[1].logits)[i])]

InTarget(i) == InList(CallTrue[i], meter.target_classes)

\* the batches with the gold of the call whose predictions differ from the
\* call's only where the gold id is not in target_classes
Variants ==
    {b \in Batches :
        /\ b.gold = call[1].gold
        /\ \A i \in 1..Len(CallTrue) :
              InTarget(i) => ArgMax(Flatten(b.logits)[i]) = CallPred[i]}

\* the six metrics of the call are those of every variant of its batch
SameForVariants ==
    \A b \in Variants :
        SixOf(BatchMetrics(meter.target_classes, b.logits, b.gold)) = SubSeq(ret, 2, 7)

AllInTargetCorrect == \A i \in 1..Len(CallTrue) : InTarget(i) => CallPred[i] = CallTrue[i]

AllPerfect == \A n \in 2..7 : ret[n] = RInt(1)

(* C10 as stated: the six metrics do not depend on what is predicted where  *)
(* the gold id is outside target_classes, and they are all perfect when     *)
(* every prediction at an in-target gold position is correct.               *)
C10_OutOfTargetIgnoredPerfect ==
    meter.it = 1 =>
        /\ SameForVariants
        /\ AllInTargetCorrect => AllPerfect

(* C10 amended: the six metrics do not depend on what is predicted where    *)
(* the gold id is outside target_classes, and they are all perfect when     *)
(* every prediction at an in-target gold position is correct and every      *)
(* target class occurs in gold.                                             *)
C10_OutOfTargetIgnored ==
    meter.it = 1 =>
        /\ SameForVariants
        /\ ( /\ AllInTargetCorrect
             /\ \A t \in 1..Len(meter.target_classes) :
                   \E i \in 1..Len(CallTrue) : CallTrue[i] = meter.target_classes[t] )
           => AllPerfect

\* a call whose only wrong prediction names a target class at a position
\* whose gold id is outside target_classes, with perfect metrics
C10_Witness ==
    /\ meter.it = 1
    /\ AllInTargetCorrect
    /\ \E i \in 1..Len(CallTrue) : InTarget(i)
    /\ \E i \in 1..Len(CallTrue) :
          /\ ~InTarget(i)
          /\ CallPred[i] # CallTrue[i]
          /\ InList(CallPred[i], meter.target_classes)
    /\ AllPerfect
    /\ Cardinality(Variants) > 1

-----------------------------------------------------------------------------
(* C11: reset(), after any sequence of updates, leaves the Meter as         *)
(* __init__ builds it for the same target_classes: the seven scalars and it *)
(* are 0 and target_classes is unchanged; so the updates that follow start  *)
(* from the state a fresh Meter starts from.                                *)
C11_ResetRestoresInitial ==
    [][ (hist'.k = 0)
        => /\ meter' = Zeroed(meter.target_classes)
           /\ meter'.target_classes = meter.target_classes ]_vars

\* a Meter that was reset after updates that had left non-zero running means
C11_Witness ==
    /\ meter.it = 0
    /\ hist.k = 0
    /\ ret # <<>>
    /\ \A n \in 1..7 : ret[n] # RInt(0)
    /\ meter = Zeroed(meter.target_classes)

-----------------------------------------------------------------------------
\* the loader the call returned
TheLoader == train_loader[1]

\* the longest Sample of the call
MaxSampleLen == MaxRowLen(list_all_tokens)

\* row i of a padded field: as long as the longest Sample, the Sample's own
\* values first, the padding value after them
RowPadded(row, own, m, padding_value) ==
    /\ Len(row) = MaxSampleLen
    /\ \A j \in 1..m : j <= Len(own) /\ row[j] = own[j]
    /\ \A j \in (m + 1)..MaxSampleLen : row[j] = padding_value

(* C12: the four fields of every Sample are right-padded to the length M of *)
(* the longest Sample of the call: a Sample of length m has its own values  *)
(* at positions 0..m-1 and the tokenizer pad id, the encoded pad_label, 0   *)
(* and false at positions m..M-1; the Samples keep their order and no row   *)
(* is longer than M.                                                        *)
C12_FieldsPaddedToLongest ==
    (pc = "returned") =>
        /\ Len(TheLoader.X) = Len(list_all_tokens)
        /\ Len(TheLoader.y) = Len(list_all_tokens)
        /\ Len(TheLoader.masks) = Len(list_all_tokens)
        /\ Len(TheLoader.crf_mask) = Len(list_all_tokens)
        /\ \A i \in 1..Len(list_all_tokens) :
            LET m == Len(list_all_tokens[i])
            IN  /\ RowPadded(TheLoader.X[i], list_all_tokens[i], m, pad_token_id)
                /\ RowPadded(TheLoader.y[i],
                             Transform(label_encoder, list_all_labels[i]), m,
                             Transform(label_encoder, <<pad_label>>)[1])
                /\ RowPadded(TheLoader.masks[i], list_all_masks[i], m, 0)
                /\ RowPadded(TheLoader.crf_mask[i], list_all_crf_masks[i], m, FALSE)

-----------------------------------------------------------------------------
\* the line under the cursor is a token line with too few columns
AtMalformedLine ==
    /\ AtLine
    /\ IsTokenLine(file[pos])
    /\ ~HasColumns(file[pos])

(* C14: a token line with fewer columns than tokens_column or predict_column *)
(* needs raises IndexError out of the call: the line is not skipped, no      *)
(* Sample is added, no loader or encoder is returned, and no later line is   *)
(* processed.                                                                *)
C14_MalformedLineAborts ==
    [][ /\ AtMalformedLine
            => /\ pc' = "IndexError"
               /\ pos' = pos
               /\ UNCHANGED bufferVars
               /\ UNCHANGED <<train_loader, dev_loader, label_encoder>>
        /\ pc = "IndexError" => UNCHANGED vars ]_vars

C14_Witness ==
    /\ pc = "IndexError"
    /\ pos < Len(file)
    /\ Len(list_all_tokens) >= 1
    /\ train_loader = <<>>
    /\ label_encoder = <<>>

-----------------------------------------------------------------------------
\* the positions of the call that pass the filter
CallKept == {i \in 1..Len(CallTrue) : InTarget(i)}

\* the counts of class c over the kept positions of the call
CallTP(c) == Cardinality({i \in CallKept : CallTrue[i] = c /\ CallPred[i] = c})

CallPredicted(c) == Cardinality({i \in CallKept : CallPred[i] = c})

CallGold(c) == Cardinality({i \in CallKept : CallTrue[i] = c})

\* a quotient of counts whose value is 0 when its denominator is 0
ZeroIfUndefined(n, d) == IF d = 0 THEN <<0, 1>> ELSE Rat(n, d)

\* the macro average over target_classes of a per-class quotient
CallMacro(num(_), den(_)) ==
    LET T == 1..Len(meter.target_classes)
    IN  RDiv(RSum([t \in T |-> ZeroIfUndefined(num(meter.target_classes[t]),
                                               den(meter.target_classes[t]))]),
             RInt(Len(meter.target_classes)))

CallTwiceTP(c) == 2 * CallTP(c)

CallPredictedPlusGold(c) == CallPredicted(c) + CallGold(c)

(* C15: update_params never fails on a zero denominator: a precision, recall *)
(* or F1 whose denominator is zero (a target class with no gold and no       *)
(* predicted instance among the kept positions, or no kept position at all)  *)
(* is taken as 0, the update completes, it is incremented and the zeros are  *)
(* folded into the running means like any other value.                       *)
C15_ZeroDenominatorIsZero ==
    (call # <<>> /\ meter.it = 1) =>
        /\ hist.k = 1
        /\ ret = Returned(meter)
        /\ \A n \in 1..7 : ret[n][2] > 0
        /\ CallKept = {} => \A n \in 2..7 : ret[n] = RInt(0)
        /\ meter.macro_prec = CallMacro(CallTP, CallPredicted)
        /\ meter.macro_recall = CallMacro(CallTP, CallGold)
        /\ meter.macro_f1 = CallMacro(CallTwiceTP, CallPredictedPlusGold)

C15_Witness ==
    /\ call # <<>>
    /\ meter.it = 1
    /\ meter.target_classes = <<1, 2>>
    /\ CallPredicted(2) = 0
    /\ CallGold(2) = 0
    /\ CallTP(1) = 2
    /\ meter.macro_prec = <<1, 2>>
    /\ meter.macro_recall = <<1, 2>>
    /\ meter.macro_f1 = <<1, 2>>
    /\ meter.micro_f1 = RInt(1)

-----------------------------------------------------------------------------
(* C16: every emitted Sample has at most max_len tokens, start and end      *)
(* markers included, so no Sample is wider than max_len.                    *)
C16_SamplesWithinMaxLen ==
    \A i \in 1..Len(list_all_tokens) : Len(list_all_tokens[i]) <= max_len

-----------------------------------------------------------------------------
\* the line under the cursor is a boundary line and the sentence in progress
\* has no token
AtBoundaryOfEmptySentence ==
    /\ AtLine
    /\ IsBoundary(file[pos])
    /\ Len(list_tokens) = 0

(* C17: a boundary line read while the sentence in progress is empty does   *)
(* nothing: no Sample is emitted, the buffers and the emitted collections   *)
(* stay as they are and reading goes on with the next line; so boundary     *)
(* lines in a row collapse, and no Sample made of the start and end markers *)
(* alone is ever emitted.                                                   *)
C17_BoundaryOfEmptySentenceNoOp ==
    [][ /\ AtBoundaryOfEmptySentence
            => /\ UNCHANGED bufferVars
               /\ pc' = "reading"
               /\ pos' = pos + 1
        /\ \A i \in 1..Len(list_all_tokens') : Len(list_all_tokens'[i]) >= 3 ]_vars

-----------------------------------------------------------------------------
\* the inner tokens of the emitted Samples, joined in the order of emission
EmittedInnerTokens ==
    Flatten([i \in 1..Len(list_all_tokens) |-> Inner(list_all_tokens[i])])

\* some sentence closed by a boundary line is over the cap
SomeSentenceOverCap ==
    \E q \in 1..Len(file) :
        /\ IsBoundary(file[q])
        /\ Len(SentenceBefore(q)) + 2 > max_len

-----------------------------------------------------------------------------
(* C19: after every flush and when the file is loaded, the collections of   *)
(* finalized tokens, labels, attention masks and CRF masks hold the same    *)
(* number of entries, the four entries of a Sample have the same length,    *)
(* that of its inner tokens plus 2, and its attention mask is all ones; so  *)
(* the assertion that compares the numbers of entries never fails.          *)
C19_ParallelCollections ==
    /\ Len(list_all_labels) = Len(list_all_tokens)
    /\ Len(list_all_masks) = Len(list_all_tokens)
    /\ Len(list_all_crf_masks) = Len(list_all_tokens)
    /\ \A i \in 1..Len(list_all_tokens) :
        /\ Len(list_all_tokens[i]) = Len(Inner(list_all_tokens[i])) + 2
        /\ Len(list_all_labels[i]) = Len(list_all_tokens[i])
        /\ Len(list_all_masks[i]) = Len(list_all_tokens[i])
        /\ Len(list_all_crf_masks[i]) = Len(list_all_tokens[i])
        /\ \A j \in 1..Len(list_all_masks[i]) : list_all_masks[i][j] = 1

-----------------------------------------------------------------------------
(* utils.py, Meter.update_params in the floating-point arithmetic of Python: *)
(* loss is a float, the metrics are float64, and every *, + and / of lines   *)
(* 108-116 rounds its exact result to the nearest number with a significand  *)
(* of FloatBits bits, ties to even.  All values are >= 0 and far from the    *)
(* ends of the exponent range.                                               *)

RECURSIVE Pow2(_)
Pow2(n) == IF n = 0 THEN 1 ELSE 2 * Pow2(n - 1)

RHalf(q) == Rat(q[1], 2 * q[2])

RDouble(q) == Rat(2 * q[1], q[2])

\* the integer nearest n / d, the even one of two that are equally near
RoundInt(n, d) ==
    LET m == n \div d
        r == n % d
    IN  IF 2 * r > d \/ (2 * r = d /\ m % 2 = 1) THEN m + 1 ELSE m

\* the floating-point number nearest q
RECURSIVE Round(_)
Round(q) ==
    IF q[1] = 0 THEN q
    ELSE IF q[1] >= Pow2(FloatBits) * q[2] THEN RDouble(Round(RHalf(q)))
    ELSE IF q[1] < Pow2(FloatBits - 1) * q[2] THEN RHalf(Round(RDouble(q)))
    ELSE RInt(RoundInt(q[1], q[2]))

FMul(a, b) == Round(RMul(a, b))

FAdd(a, b) == Round(RAdd(a, b))

FDiv(a, b) == Round(RDiv(a, b))

\* a variant that weighs the old mean by it + 1
FoldFloatHeavy(old, it, new) ==
    FDiv(FAdd(FMul(old, RInt(it + 1)), new), RInt(it + 1))

\* (self.x * self.it + x) / (self.it + 1), in floating point
FoldFloat(old, it, new) ==
    FDiv(FAdd(FMul(old, RInt(it)), new), RInt(it + 1))

\* the six batch metrics as the floats sklearn returns
FloatScores(scores) ==
    [f \in Scalars \ {"loss"} |-> Round(scores[f])]

\* lines 108-128 in floating point
UpdatedFloat(m, loss, scores) ==
    [target_classes |-> m.target_classes,
     loss |-> FoldFloat(m.loss, m.it, loss),
     micro_prec |-> FoldFloat(m.micro_prec, m.it, scores.micro_prec),
     micro_recall |-> FoldFloat(m.micro_recall, m.it, scores.micro_recall),
     micro_f1 |-> FoldFloat(m.micro_f1, m.it, scores.micro_f1),
     macro_prec |-> FoldFloat(m.macro_prec, m.it, scores.macro_prec),
     macro_recall |-> FoldFloat(m.macro_recall, m.it, scores.macro_recall),
     macro_f1 |-> FoldFloat(m.macro_f1, m.it, scores.macro_f1),
     it |-> m.it + 1]

\* the loss values of the calls that repeat one batch, before rounding
SameLossChoices == {<<1, 10>>, <<9, 10>>, <<1, 2>>}

(* The same update_params call made again and again on one Meter, with *)
(* resets in between; its arguments are held in `call`                 *)

InitSame ==
    /\ meter \in {Zeroed(target) : target \in TargetChoices}
    /\ ret = <<>>
    /\ hist = NoHistory
    /\ call \in {<<[loss |-> Round(l), logits |-> b.logits, gold |-> b.gold]>> :
                    l \in SameLossChoices, b \in MeterBatches}
    /\ file = <<>>
    /\ max_len = 0
    /\ pos = 1
    /\ pc = "meter"
    /\ list_tokens = <<>>
    /\ list_labels = <<>>
    /\ list_all_tokens = <<>>
    /\ list_all_labels = <<>>
    /\ list_all_masks = <<>>
    /\ list_all_crf_masks = <<>>
    /\ phase = "meter"
    /\ label_encoder = <<>>
    /\ train_loader = <<>>
    /\ dev_loader = <<>>

\* the single-batch values of the call, by scalar
CallValues ==
    BatchValues(call[1].loss,
                FloatScores(BatchMetrics(meter.target_classes,
                                         call[1].logits, call[1].gold)))

\* update_params(call.loss, call.logits, call.gold), once more
UpdateSame ==
    /\ pc = "meter"
    /\ call # <<>>
    /\ meter.it < MaxUpdates
    /\ meter' = UpdatedFloat(meter, call[1].loss,
                    FloatScores(BatchMetrics(meter.target_classes,
                                             call[1].logits, call[1].gold)))
    /\ ret' = Returned(meter')
    /\ hist' = [k |-> hist.k + 1,
                sum |-> [f \in Scalars |-> RAdd(hist.sum[f], CallValues[f])]]
    /\ UNCHANGED <<call, builderVars, loadVars>>

\* reset() between the repeated calls
ResetSame ==
    /\ pc = "meter"
    /\ call # <<>>
    /\ meter' = ResetFields(meter)
    /\ hist' = NoHistory
    /\ UNCHANGED <<ret, call, builderVars, loadVars>>

NextSame ==
    \/ UpdateSame
    \/ ResetSame

SpecSame == InitSame /\ [][NextSame]_vars

\* a <= b, and the distance of a and b, for rationals
RLeq(a, b) == a[1] * b[2] <= b[1] * a[2]

RDist(a, b) ==
    IF RLeq(a, b) THEN Rat(b[1] * a[2] - a[1] * b[2], a[2] * b[2])
    ELSE Rat(a[1] * b[2] - b[1] * a[2], a[2] * b[2])

\* a and b differ by at most n times the machine epsilon 2^(1 - FloatBits),
\* relative to b
WithinRounding(a, b, n) ==
    RLeq(RMul(RDist(a, b), RInt(Pow2(FloatBits - 1))), RMul(RInt(n), b))

(* C13, as the spec states it: the same (loss, logits, gold) given N >= 1   *)
(* times to a fresh or reset Meter leaves, after every call, each of the    *)
(* seven running scalars equal to its single-batch value.                   *)
C13_SameBatchSameValues ==
    (hist.k >= 1) =>
        /\ \A f \in Scalars : meter[f] = CallValues[f]
        /\ ret = Returned(meter)

(* C13, amended: after the first and the second call each running scalar    *)
(* equals its single-batch value; after a later call it equals it up to the *)
(* rounding of the floating-point mean, within N machine epsilons of it.    *)
C13_SameBatchWithinRounding ==
    (hist.k >= 1) =>
        /\ meter.it = hist.k
        /\ \A f \in Scalars :
            /\ hist.k <= 2 => meter[f] = CallValues[f]
            /\ WithinRounding(meter[f], CallValues[f], hist.k)
        /\ ret = Returned(meter)

C13_Witness ==
    /\ hist.k = 3
    /\ meter.it = 3
    /\ meter.loss # call[1].loss
    /\ WithinRounding(meter.loss, call[1].loss, 1)
    /\ meter.micro_prec = RInt(1)

=============================================================================
